---- MODULE Spec2Model ----
(***************************************************************************)
(* Model of src/main.py: a FastAPI service with CRUD handlers for books   *)
(* and users over one JSON file (data.json), a process-wide threading     *)
(* lock around the write handlers, and two http middlewares (timing      *)
(* header, admin guard).                                                  *)
(*                                                                         *)
(* A step of the model is one system call on the data file, one lock      *)
(* operation, or the purely local part of a handler.  The data file is    *)
(* modelled by the number of bytes it holds and by what json.load makes   *)
(* of them.  Documents in the model stay far below the 8192-byte buffer   *)
(* of Python's file objects, so json.dump reaches the file as one write   *)
(* at offset 0 when the file is closed.                                    *)
(***************************************************************************)
EXTENDS Integers, Sequences, FiniteSets, TLC

\* ---------------------------------------------------------------- bounds
NumThreads == 2          \* request threads of the server
MaxCreates == 2          \* Create requests accepted in one run

Threads == 1 .. NumThreads
Ids     == 1 .. MaxCreates
Kinds   == {"books", "users"}

NoBody == [detail |-> "none"]

\* ------------------------------------------------------- validated inputs
\* BookIn / UserIn bodies after validation; price is the float's repr.
BookInputs ==
    { [title |-> "A",  author |-> "B", year |-> 2000, genre |-> "G", price |-> "9.99"],
      [title |-> "Zz", author |-> "Y", year |-> 1999, genre |-> "H", price |-> "10.0"] }

UserInputs ==
    { [name |-> "N", email |-> "E", role |-> "reader"],
      [name |-> "M", email |-> "F", role |-> "admin"] }

Inputs(kind) == IF kind = "books" THEN BookInputs ELSE UserInputs

\* {"id": id, **x.dict()}
BookRecord(id, x) ==
    [id |-> id, title |-> x.title, author |-> x.author, year |-> x.year,
     genre |-> x.genre, price |-> x.price]

UserRecord(id, x) ==
    [id |-> id, name |-> x.name, email |-> x.email, role |-> x.role]

MakeRecord(kind, id, x) ==
    IF kind = "books" THEN BookRecord(id, x) ELSE UserRecord(id, x)

\* -------------------------------------------------------------- documents
\* The document of data.json.  has_users says whether the keys "users" and
\* "next_user_id" are present; when they are not, users is <<>> and
\* next_user_id is 0 and neither is ever read.
DefaultDoc ==
    [books |-> <<>>, next_id |-> 1, has_users |-> FALSE,
     users |-> <<>>, next_user_id |-> 0]

RECURSIVE Digits(_)
Digits(n) == IF n < 10 THEN 1 ELSE 1 + Digits(n \div 10)

\* Bytes of one record as json.dump(..., indent=2) writes it inside a list.
BookBytes(r) ==
    115 + Digits(r.id) + Len(r.title) + Len(r.author) + Digits(r.year)
        + Len(r.genre) + Len(r.price)

UserBytes(r) ==
    79 + Digits(r.id) + Len(r.name) + Len(r.email) + Len(r.role)

RECURSIVE SumBytes(_, _)
SumBytes(kind, s) ==
    IF s = <<>> THEN 0
    ELSE (IF kind = "books" THEN BookBytes(Head(s)) ELSE UserBytes(Head(s)))
         + SumBytes(kind, Tail(s))

\* "[]" for an empty list, else "[\n", the records separated by ",\n", "\n  ]"
ListBytes(kind, s) ==
    IF s = <<>> THEN 2 ELSE 2 + SumBytes(kind, s) + 2 * (Len(s) - 1) + 4

\* Length of json.dump(doc, f, ensure_ascii=False, indent=2)
DocBytes(d) ==
    28 + ListBytes("books", d.books) + Digits(d.next_id) + 2
       + (IF d.has_users
          THEN 33 + ListBytes("users", d.users) + Digits(d.next_user_id)
          ELSE 0)

\* ----------------------------------------------------- requests and routes
Chars(kind) ==
    IF kind = "books" THEN <<"/", "b", "o", "o", "k", "s">>
    ELSE <<"/", "u", "s", "e", "r", "s">>

\* Paths are sequences of characters.  A path that ends in "/" and is routed
\* to get, update or delete carries an integer id after it, which the handler
\* reads when it scans the collection.
PathHealth      == <<"/", "h", "e", "a", "l", "t", "h">>
PathAdminSecret == <<"/", "a", "d", "m", "i", "n", "/", "s", "e", "c", "r", "e", "t">>
PathAdminOther  == <<"/", "a", "d", "m", "i", "n", "/", "x">>
PathAdminBare   == <<"/", "a", "d", "m", "i", "n">>
PathList(kind)  == Chars(kind)
PathItem(kind)  == Chars(kind) \o <<"/">>

Targets ==
    { [method |-> "GET", path |-> p] :
          p \in {PathHealth, PathAdminSecret, PathAdminOther, PathAdminBare} }
    \cup { [method |-> m, path |-> PathList(k)] : m \in {"GET", "POST"}, k \in Kinds }
    \cup { [method |-> m, path |-> PathItem(k)] :
               m \in {"GET", "PUT", "DELETE"}, k \in Kinds }

\* The header X-API-Key of a request: absent ("None"), the secret, or another value.
API_KEY == "sekretnyklucz"
Keys == {"None", API_KEY, "wrong"}

\* The route decorators: method and path to handler.
Route(tg) ==
    CASE tg.method = "GET" /\ tg.path = PathHealth      -> [h |-> "health", kind |-> "none"]
      [] tg.method = "GET" /\ tg.path = PathAdminSecret -> [h |-> "admin_secret", kind |-> "none"]
      [] \E k \in Kinds : tg.path = PathList(k) ->
            [h |-> IF tg.method = "GET" THEN "list" ELSE "create",
             kind |-> CHOOSE k \in Kinds : tg.path = PathList(k)]
      [] \E k \in Kinds : tg.path = PathItem(k) ->
            [h |-> CASE tg.method = "GET" -> "get"
                     [] tg.method = "PUT" -> "update"
                     [] OTHER -> "delete",
             kind |-> CHOOSE k \in Kinds : tg.path = PathItem(k)]
      [] OTHER -> [h |-> "none", kind |-> "none"]

Routes == [tg \in Targets |-> Route(tg)]

\* str.startswith
StartsWith(s, p) == Len(s) >= Len(p) /\ SubSeq(s, 1, Len(p)) = p

AdminPrefix == <<"/", "a", "d", "m", "i", "n", "/">>

\* mutant of GuardRejects: the prefix compared is "/admin", without the slash
GuardRejects_PrefixWithoutSlash(path, key) ==
    StartsWith(path, <<"/", "a", "d", "m", "i", "n">>) /\ key # API_KEY

\* admin_guard: TRUE when the request is answered 401 without call_next
GuardRejects(path, key) == StartsWith(path, AdminPrefix) /\ key # API_KEY

\* Every request that can arrive, as <<target, key>>, by what admin_guard and
\* the router do with it: "401", or the handler the request is delegated to
\* ("none" when no route matches).
Handlers == {"health", "admin_secret", "list", "get", "create", "update", "delete", "none"}

Arrivals ==
    [to \in Handlers \cup {"401"} |->
        { a \in Targets \X Keys :
             IF to = "401" THEN GuardRejects(a[1].path, a[2])
             ELSE ~GuardRejects(a[1].path, a[2]) /\ Routes[a[1]].h = to }]

\* timing_header: the header it sets on the response of call_next
TimingHeaders == {"X-Process-Time"}

\* Middlewares registered with @app.middleware("http") are stacked last
\* registered outermost: admin_guard wraps timing_header wraps the router.
\* The response of admin_guard's own 401 therefore never passes timing_header.
UnauthorizedResponse ==
    [h |-> "none", kind |-> "none", id |-> 0, input |-> NoBody, status |-> 401,
     body |-> [detail |-> "Unauthorized (missing/invalid X-API-Key)"],
     headers |-> {}]

\* A response that comes back through timing_header.
Response(h, kind, id, input, status, body) ==
    [h |-> h, kind |-> kind, id |-> id, input |-> input, status |-> status,
     body |-> body, headers |-> TimingHeaders]

\* An exception that is not an HTTPException leaves timing_header through
\* "await call_next(request)", so the 500 response is built outside it.
ServerError ==
    [h |-> "none", kind |-> "none", id |-> 0, input |-> NoBody, status |-> 500,
     body |-> [detail |-> "Internal Server Error"], headers |-> {}]

NotFoundBody(kind) ==
    [detail |-> IF kind = "books" THEN "Book not found" ELSE "User not found"]

\* ------------------------------------------------------------------ state
\* A thread keeps the method and path of the request it serves; the id in the
\* path and the body are drawn at the step of the handler that first uses them.
VARIABLES
    file,     \* data.json: [exists, len, parsed]; parsed is <<doc>> when the
              \* bytes are a JSON document and <<>> when json.load rejects them
    lock,     \* LOCK: 0 when free, else the thread holding it
    pc,       \* position of each thread
    rq,       \* method and path of the request each thread serves
    db,       \* the document a write handler is about to save
    ret,      \* the response a write handler returns after its save
    seen,     \* the request admin_guard handled in the step just taken
    last,     \* the response sent by the step just taken
    issued,   \* per kind, the ids returned by Create, in order of return
    fresh,    \* per kind, [id, input] of the Creates whose id was not updated
              \* or deleted since
    deleted,  \* per kind, the ids of successful Deletes
    live,     \* per kind, the records of the Creates that returned, in the
              \* order of their return, each as its last Update left it,
              \* without those whose id a Delete removed
    creates   \* number of Create requests accepted

vars == <<file, lock, pc, rq, db, ret, seen, last, issued, fresh, deleted, live, creates>>

NoFile  == [exists |-> FALSE, len |-> 0, parsed |-> <<>>]
NoRq    == [method |-> "none", path |-> <<>>]
NoSeen  == [target |-> NoRq, key |-> "-", to |-> "-"]
NoResp  == [h |-> "none", kind |-> "none", id |-> 0, input |-> NoBody,
            status |-> 0, body |-> NoBody, headers |-> {}]

Init ==
    /\ file = NoFile
    /\ lock = 0
    /\ pc = [t \in Threads |-> "idle"]
    /\ rq = [t \in Threads |-> NoRq]
    /\ db = [t \in Threads |-> DefaultDoc]
    /\ ret = [t \in Threads |-> NoResp]
    /\ seen = NoSeen
    /\ last = NoResp
    /\ issued = [k \in Kinds |-> <<>>]
    /\ fresh = [k \in Kinds |-> {}]
    /\ deleted = [k \in Kinds |-> {}]
    /\ live = [k \in Kinds |-> <<>>]
    /\ creates = 0

\* ------------------------------------------------------------ the data file
\* open(DATA_FILE, "w"): creates the file or truncates it to no bytes
OpenForWrite == [exists |-> TRUE, len |-> 0, parsed |-> <<>>]

\* json.dump and close on a file object opened before: the bytes of d go to
\* offset 0.  Bytes another writer left beyond them stay, and json.load
\* rejects such a file ("Extra data").
WriteDoc(f, d) ==
    IF f.len <= DocBytes(d)
    THEN [exists |-> TRUE, len |-> DocBytes(d), parsed |-> <<d>>]
    ELSE [exists |-> TRUE, len |-> f.len, parsed |-> <<>>]

\* db["books"], db.get("users", [])
Coll(d, kind) == IF kind = "books" THEN d.books ELSE d.users

\* mutant of IndexOf: the id taken for the position in the list
IndexOf_ByPosition(s, id, i) == IF id <= Len(s) THEN id ELSE 0

\* the index of the first record with this id, 0 when there is none
RECURSIVE IndexOf(_, _, _)
IndexOf(s, id, i) ==
    IF i > Len(s) THEN 0
    ELSE IF s[i].id = id THEN i ELSE IndexOf(s, id, i + 1)

\* mutant of Pop: pop() without the index, which removes the last record
Pop_Last(s, i) == SubSeq(s, 1, Len(s) - 1)

\* db["books"].pop(i)
Pop(s, i) == SubSeq(s, 1, i - 1) \o SubSeq(s, i + 1, Len(s))

\* mutant of NewId: the new id computed from the length of the collection
NewId_FromLength(d, kind) == Len(Coll(d, kind)) + 1

\* new_id of create_book / create_user
NewId(d, kind) ==
    IF kind = "books" THEN d.next_id
    ELSE IF d.has_users THEN d.next_user_id ELSE 1

\* mutant of AfterCreate: the counter is not advanced
AfterCreate_KeepsCounter(d, kind, x) ==
    IF kind = "books"
    THEN [d EXCEPT !.books = Append(@, BookRecord(NewId(d, "books"), x))]
    ELSE [d EXCEPT !.has_users = TRUE,
                   !.users = Append(@, UserRecord(NewId(d, "users"), x)),
                   !.next_user_id = NewId(d, "users")]

\* mutant of AfterCreate: the new record put in front of the collection
AfterCreate_Prepend(d, kind, x) ==
    IF kind = "books"
    THEN [d EXCEPT !.books = <<BookRecord(NewId(d, "books"), x)>> \o @,
                   !.next_id = NewId(d, "books") + 1]
    ELSE [d EXCEPT !.has_users = TRUE,
                   !.users = <<UserRecord(NewId(d, "users"), x)>> \o @,
                   !.next_user_id = NewId(d, "users") + 1]

\* the document create_book / create_user saves
AfterCreate(d, kind, x) ==
    IF kind = "books"
    THEN [d EXCEPT !.books = Append(@, BookRecord(NewId(d, "books"), x)),
                   !.next_id = NewId(d, "books") + 1]
    ELSE [d EXCEPT !.has_users = TRUE,
                   !.users = Append(@, UserRecord(NewId(d, "users"), x)),
                   !.next_user_id = NewId(d, "users") + 1]

\* mutant of AfterUpdate: the 0-based index of enumerate written as the id
AfterUpdate_IndexAsId(d, kind, i, id, x) ==
    IF kind = "books"
    THEN [d EXCEPT !.books[i] = BookRecord(i - 1, x)]
    ELSE [d EXCEPT !.users[i] = UserRecord(i - 1, x)]

\* mutant of AfterUpdate: a merge that keeps one field of the old record
AfterUpdate_Merge(d, kind, i, id, x) ==
    IF kind = "books"
    THEN [d EXCEPT !.books[i] = [BookRecord(id, x) EXCEPT !.price = d.books[i].price]]
    ELSE [d EXCEPT !.users[i] = [UserRecord(id, x) EXCEPT !.role = d.users[i].role]]

\* mutant of AfterUpdate: the id counter of the collection advanced as well
AfterUpdate_AdvancesCounter(d, kind, i, id, x) ==
    IF kind = "books"
    THEN [d EXCEPT !.books[i] = BookRecord(id, x), !.next_id = @ + 1]
    ELSE [d EXCEPT !.users[i] = UserRecord(id, x), !.next_user_id = @ + 1]

\* the document update_book / update_user saves; i is the index found
AfterUpdate(d, kind, i, id, x) ==
    IF kind = "books"
    THEN [d EXCEPT !.books[i] = BookRecord(id, x)]
    ELSE [d EXCEPT !.users[i] = UserRecord(id, x)]

\* mutant of AfterDelete: the collection of the other kind emptied as well
AfterDelete_EmptiesOther(d, kind, i) ==
    IF kind = "books"
    THEN [d EXCEPT !.books = Pop(@, i), !.users = <<>>]
    ELSE [d EXCEPT !.users = Pop(@, i), !.books = <<>>]

\* the document delete_book / delete_user saves
AfterDelete(d, kind, i) ==
    IF kind = "books"
    THEN [d EXCEPT !.books = Pop(@, i)]
    ELSE [d EXCEPT !.users = Pop(@, i)]

\* ---------------------------------------------------------------- actions
\* the route of the request a thread serves
Handler(t) == Routes[rq[t]]
Kind(t) == Handler(t).kind

\* leaving "with LOCK:"
Release(t) == lock' = IF lock = t THEN 0 ELSE lock

\* A request arrives at a free thread and passes admin_guard and the router.
Arrive(t, to) ==
    /\ pc[t] = "idle"
    /\ \E a \in Arrivals[to] : seen' = [target |-> a[1], key |-> a[2], to |-> to]

\* call_next reaches a handler that works on the document
Delegate(t, hs, to) ==
    /\ \E h \in hs : Arrive(t, h)
    /\ rq' = [rq EXCEPT ![t] = seen'.target]
    /\ pc' = [pc EXCEPT ![t] = to]
    /\ last' = NoResp

\* admin_guard answers 401
Unauthorized(t) ==
    /\ Arrive(t, "401")
    /\ last' = UnauthorizedResponse
    /\ UNCHANGED <<file, lock, pc, rq, db, ret, issued, fresh, deleted, live, creates>>

\* health
Health(t) ==
    /\ Arrive(t, "health")
    /\ last' = Response("health", "none", 0, NoBody, 200, [status |-> "ok"])
    /\ UNCHANGED <<file, lock, pc, rq, db, ret, issued, fresh, deleted, live, creates>>

\* admin_secret
AdminSecret(t) ==
    /\ Arrive(t, "admin_secret")
    /\ last' = Response("admin_secret", "none", 0, NoBody, 200,
                        [ok |-> TRUE, msg |-> "Welcome, admin."])
    /\ UNCHANGED <<file, lock, pc, rq, db, ret, issued, fresh, deleted, live, creates>>

\* no route matches: the router's 404
NoRoute(t) ==
    /\ Arrive(t, "none")
    /\ last' = Response("none", "none", 0, NoBody, 404, [detail |-> "Not Found"])
    /\ UNCHANGED <<file, lock, pc, rq, db, ret, issued, fresh, deleted, live, creates>>

\* list_*, get_*: the handler starts with load_db()
BeginRead(t) ==
    /\ Delegate(t, {"list", "get"}, "exists")
    /\ UNCHANGED <<file, lock, db, ret, issued, fresh, deleted, live, creates>>

\* create_*, update_*, delete_*: the handler starts with "with LOCK:"
BeginWrite(t) ==
    /\ Delegate(t, {"create", "update", "delete"}, "lock")
    /\ creates' = IF seen'.to = "create" THEN creates + 1 ELSE creates
    /\ creates' <= MaxCreates
    /\ UNCHANGED <<file, lock, db, ret, issued, fresh, deleted, live>>

\* A step inside a handler that sends no response.
Inside(t, from, to) ==
    /\ pc[t] = from
    /\ pc' = [pc EXCEPT ![t] = to]
    /\ rq' = rq
    /\ seen' = NoSeen
    /\ last' = NoResp

\* A step of a handler that sends its response.
Respond(t, from, r) ==
    /\ pc[t] = from
    /\ pc' = [pc EXCEPT ![t] = "idle"]
    /\ rq' = [rq EXCEPT ![t] = NoRq]
    /\ seen' = NoSeen
    /\ last' = r
    /\ Release(t)

\* mutant of Acquire: the handler body entered without waiting for LOCK
Acquire_NoWait(t) ==
    /\ lock' = t
    /\ Inside(t, "lock", "exists")
    /\ UNCHANGED <<file, db, ret, issued, fresh, deleted, live, creates>>

\* "with LOCK:" entered: acquire() returns once the lock is free
Acquire(t) ==
    /\ lock = 0
    /\ lock' = t
    /\ Inside(t, "lock", "exists")
    /\ UNCHANGED <<file, db, ret, issued, fresh, deleted, live, creates>>

\* _ensure_db: os.path.exists(DATA_FILE)
EnsureExists(t) ==
    /\ Inside(t, "exists", IF file.exists THEN "read" ELSE "open_w")
    /\ UNCHANGED <<file, lock, db, ret, issued, fresh, deleted, live, creates>>

\* _ensure_db: open(DATA_FILE, "w")
EnsureOpen(t) ==
    /\ file' = OpenForWrite
    /\ Inside(t, "open_w", "dump")
    /\ UNCHANGED <<lock, db, ret, issued, fresh, deleted, live, creates>>

\* _ensure_db: json.dump of the default document and close
EnsureDump(t) ==
    /\ file' = WriteDoc(file, DefaultDoc)
    /\ Inside(t, "dump", "read")
    /\ UNCHANGED <<lock, db, ret, issued, fresh, deleted, live, creates>>

\* load_db: json.load raises on a file that is not a JSON document; the
\* exception leaves the handler (and its "with LOCK:") and becomes a 500.
LoadFails(t) ==
    /\ file.parsed = <<>>
    /\ Respond(t, "read", ServerError)
    /\ UNCHANGED <<file, db, ret, issued, fresh, deleted, live, creates>>

ListRead(t) ==
    /\ pc[t] = "read"
    /\ Handler(t).h = "list"
    /\ file.parsed # <<>>
    /\ Respond(t, "read",
               Response("list", Kind(t), 0, NoBody, 200,
                        [items |-> Coll(file.parsed[1], Kind(t))]))
    /\ UNCHANGED <<file, db, ret, issued, fresh, deleted, live, creates>>

GetRead(t) ==
    /\ pc[t] = "read"
    /\ Handler(t).h = "get"
    /\ file.parsed # <<>>
    /\ \E id \in Ids :
          LET c == Coll(file.parsed[1], Kind(t))
              i == IndexOf(c, id, 1)
          IN  Respond(t, "read",
                      IF i > 0 THEN Response("get", Kind(t), id, NoBody, 200, c[i])
                      ELSE Response("get", Kind(t), id, NoBody, 404, NotFoundBody(Kind(t))))
    /\ UNCHANGED <<file, db, ret, issued, fresh, deleted, live, creates>>

\* create_*: load_db, new_id, append, next id; save_db follows
CreateLoad(t) ==
    /\ pc[t] = "read"
    /\ Handler(t).h = "create"
    /\ file.parsed # <<>>
    /\ \E x \in Inputs(Kind(t)) :
          LET d == file.parsed[1] IN
          /\ db' = [db EXCEPT ![t] = AfterCreate(d, Kind(t), x)]
          /\ ret' = [ret EXCEPT ![t] =
                       Response("create", Kind(t), NewId(d, Kind(t)), x, 201,
                                MakeRecord(Kind(t), NewId(d, Kind(t)), x))]
    /\ Inside(t, "read", "save_open")
    /\ UNCHANGED <<file, lock, issued, fresh, deleted, live, creates>>

\* update_*: load_db and the scan for an id that is found; save_db follows
UpdateLoad(t) ==
    /\ pc[t] = "read"
    /\ Handler(t).h = "update"
    /\ file.parsed # <<>>
    /\ \E id \in Ids, x \in Inputs(Kind(t)) :
          LET d == file.parsed[1]
              i == IndexOf(Coll(d, Kind(t)), id, 1)
          IN  /\ i > 0
              /\ db' = [db EXCEPT ![t] = AfterUpdate(d, Kind(t), i, id, x)]
              /\ ret' = [ret EXCEPT ![t] =
                           Response("update", Kind(t), id, x, 200, MakeRecord(Kind(t), id, x))]
    /\ Inside(t, "read", "save_open")
    /\ UNCHANGED <<file, lock, issued, fresh, deleted, live, creates>>

\* mutant of UpdateNotFound: the 404 sent without leaving "with LOCK:"
UpdateNotFound_KeepsLock(t) ==
    /\ pc[t] = "read"
    /\ Handler(t).h = "update"
    /\ file.parsed # <<>>
    /\ \E id \in Ids, x \in Inputs(Kind(t)) :
          /\ IndexOf(Coll(file.parsed[1], Kind(t)), id, 1) = 0
          /\ pc' = [pc EXCEPT ![t] = "idle"]
          /\ rq' = [rq EXCEPT ![t] = NoRq]
          /\ seen' = NoSeen
          /\ last' = Response("update", Kind(t), id, x, 404, NotFoundBody(Kind(t)))
    /\ UNCHANGED <<file, lock, db, ret, issued, fresh, deleted, live, creates>>

\* update_*: the scan finds nothing; the 404 is raised after the lock is left
UpdateNotFound(t) ==
    /\ pc[t] = "read"
    /\ Handler(t).h = "update"
    /\ file.parsed # <<>>
    /\ \E id \in Ids, x \in Inputs(Kind(t)) :
          /\ IndexOf(Coll(file.parsed[1], Kind(t)), id, 1) = 0
          /\ Respond(t, "read", Response("update", Kind(t), id, x, 404, NotFoundBody(Kind(t))))
    /\ UNCHANGED <<file, db, ret, issued, fresh, deleted, live, creates>>

\* delete_*: load_db and the scan for an id that is found; save_db follows
DeleteLoad(t) ==
    /\ pc[t] = "read"
    /\ Handler(t).h = "delete"
    /\ file.parsed # <<>>
    /\ \E id \in Ids :
          LET d == file.parsed[1]
              i == IndexOf(Coll(d, Kind(t)), id, 1)
          IN  /\ i > 0
              /\ db' = [db EXCEPT ![t] = AfterDelete(d, Kind(t), i)]
              /\ ret' = [ret EXCEPT ![t] =
                           Response("delete", Kind(t), id, NoBody, 204, NoBody)]
    /\ Inside(t, "read", "save_open")
    /\ UNCHANGED <<file, lock, issued, fresh, deleted, live, creates>>

\* mutant of DeleteNotFound: save_db is called though nothing was found
DeleteNotFound_Saves(t) ==
    /\ pc[t] = "read"
    /\ Handler(t).h = "delete"
    /\ file.parsed # <<>>
    /\ \E id \in Ids :
          /\ IndexOf(Coll(file.parsed[1], Kind(t)), id, 1) = 0
          /\ db' = [db EXCEPT ![t] = file.parsed[1]]
          /\ ret' = [ret EXCEPT ![t] =
                       Response("delete", Kind(t), id, NoBody, 404, NotFoundBody(Kind(t)))]
    /\ Inside(t, "read", "save_open")
    /\ UNCHANGED <<file, lock, issued, fresh, deleted, live, creates>>

\* delete_*: the scan finds nothing
DeleteNotFound(t) ==
    /\ pc[t] = "read"
    /\ Handler(t).h = "delete"
    /\ file.parsed # <<>>
    /\ \E id \in Ids :
          /\ IndexOf(Coll(file.parsed[1], Kind(t)), id, 1) = 0
          /\ Respond(t, "read", Response("delete", Kind(t), id, NoBody, 404, NotFoundBody(Kind(t))))
    /\ UNCHANGED <<file, db, ret, issued, fresh, deleted, live, creates>>

\* save_db: open(DATA_FILE, "w")
SaveOpen(t) ==
    /\ file' = OpenForWrite
    /\ Inside(t, "save_open", "save_dump")
    /\ UNCHANGED <<lock, db, ret, issued, fresh, deleted, live, creates>>

\* save_db: json.dump and close; then the handler returns, leaving the lock
SaveDump(t) ==
    /\ file' = WriteDoc(file, db[t])
    /\ Respond(t, "save_dump", ret[t])
    /\ LET r == ret[t]
           others == {c \in fresh[r.kind] : c.id # r.id}
       IN  /\ issued' = IF r.h = "create"
                        THEN [issued EXCEPT ![r.kind] = Append(@, r.id)]
                        ELSE issued
           /\ fresh' = [fresh EXCEPT ![r.kind] =
                          IF r.h = "create"
                          THEN others \cup {[id |-> r.id, input |-> r.input]}
                          ELSE others]
           /\ deleted' = IF r.h = "delete"
                         THEN [deleted EXCEPT ![r.kind] = @ \cup {r.id}]
                         ELSE deleted
           /\ live' = [live EXCEPT ![r.kind] =
                         CASE r.h = "create" -> Append(@, r.body)
                           [] r.h = "update" ->
                                [i \in 1 .. Len(@) |->
                                    IF @[i].id = r.id THEN r.body ELSE @[i]]
                           [] OTHER -> SelectSeq(@, LAMBDA c : c.id # r.id)]
    /\ db' = [db EXCEPT ![t] = DefaultDoc]
    /\ ret' = [ret EXCEPT ![t] = NoResp]
    /\ UNCHANGED creates

\* save_db: the write of json.dump or of the close that follows raises OSError
\* (no space left, quota, medium error).  open(.., "w") has truncated the file
\* by then; the bytes that reached it, if any, are a proper prefix of the
\* document, which json.load rejects like the empty file.  The exception
\* leaves the handler and its "with LOCK:" and becomes a 500.
SaveFails(t) ==
    /\ Respond(t, "save_dump", ServerError)
    /\ db' = [db EXCEPT ![t] = DefaultDoc]
    /\ ret' = [ret EXCEPT ![t] = NoResp]
    /\ UNCHANGED <<file, issued, fresh, deleted, live, creates>>

\* ---------------------------------------------------------- specifications
\* the steps of the handlers that work on the document, but a failing json.load
Handle(t) ==
    \/ BeginRead(t)
    \/ BeginWrite(t)
    \/ Acquire(t)
    \/ EnsureExists(t)
    \/ EnsureOpen(t)
    \/ EnsureDump(t)
    \/ ListRead(t)
    \/ GetRead(t)
    \/ CreateLoad(t)
    \/ UpdateLoad(t)
    \/ UpdateNotFound(t)
    \/ DeleteLoad(t)
    \/ DeleteNotFound(t)
    \/ SaveOpen(t)
    \/ SaveDump(t)

\* Spec: requests for books and users served concurrently, one thread each.
\* Requests that touch neither the file nor the lock (401, /health,
\* /admin/secret, unknown paths) take one step that commutes with every step
\* of the other threads; they are part of SpecSeq only.
Next == \E t \in Threads : Handle(t) \/ LoadFails(t)

Spec == Init /\ [][Next]_vars

\* SpecSeq: every kind of request, one request at a time: a thread takes steps
\* only while no other thread serves a request.  The file is then never read
\* between an open(.., "w") and the dump that follows it, so json.load does
\* not fail.
Sequential(t) == \A u \in Threads \ {t} : pc[u] = "idle"

NextSeq ==
    \E t \in Threads :
        \/ Sequential(t) /\ Unauthorized(t)
        \/ Sequential(t) /\ Health(t)
        \/ Sequential(t) /\ AdminSecret(t)
        \/ Sequential(t) /\ NoRoute(t)
        \/ Sequential(t) /\ BeginRead(t)
        \/ Sequential(t) /\ BeginWrite(t)
        \/ Sequential(t) /\ Acquire(t)
        \/ Sequential(t) /\ EnsureExists(t)
        \/ Sequential(t) /\ EnsureOpen(t)
        \/ Sequential(t) /\ EnsureDump(t)
        \/ Sequential(t) /\ ListRead(t)
        \/ Sequential(t) /\ GetRead(t)
        \/ Sequential(t) /\ CreateLoad(t)
        \/ Sequential(t) /\ UpdateLoad(t)
        \/ Sequential(t) /\ UpdateNotFound(t)
        \/ Sequential(t) /\ DeleteLoad(t)
        \/ Sequential(t) /\ DeleteNotFound(t)
        \/ Sequential(t) /\ SaveOpen(t)
        \/ Sequential(t) /\ SaveDump(t)

SpecSeq == Init /\ [][NextSeq]_vars

\* SpecIO: SpecSeq with write errors in save_db, and the failing json.load
\* that follows one.
NextIO ==
    \/ NextSeq
    \/ \E t \in Threads : Sequential(t) /\ SaveFails(t)
    \/ \E t \in Threads : Sequential(t) /\ LoadFails(t)

SpecIO == Init /\ [][NextIO]_vars

\* SpecFair: every kind of request, served concurrently, under a fair
\* scheduler.  The steps of a handler are the scheduler's to take; the arrival
\* of a request is not.  A thread that can take its next step takes it (weak
\* fairness), and a thread waiting for LOCK gets it when it is free again and
\* again (strong fairness: threading.Lock itself promises no order among
\* waiters).  MaxFairCreates bounds the documents of this specification.
MaxFairCreates == 1

Step(t) ==
    \/ Acquire(t)
    \/ EnsureExists(t)
    \/ EnsureOpen(t)
    \/ EnsureDump(t)
    \/ LoadFails(t)
    \/ ListRead(t)
    \/ GetRead(t)
    \/ CreateLoad(t)
    \/ UpdateLoad(t)
    \/ UpdateNotFound(t)
    \/ DeleteLoad(t)
    \/ DeleteNotFound(t)
    \/ SaveOpen(t)
    \/ SaveDump(t)

NextFair ==
    \E t \in Threads :
        \/ Unauthorized(t)
        \/ Health(t)
        \/ AdminSecret(t)
        \/ NoRoute(t)
        \/ BeginRead(t)
        \/ BeginWrite(t) /\ creates' <= MaxFairCreates
        \/ Step(t)

Fairness == \A t \in Threads : WF_vars(Step(t)) /\ SF_vars(Acquire(t))

SpecFair == Init /\ [][NextFair]_vars /\ Fairness

\* ------------------------------------------------------------------ claims
HasDoc == file.parsed # <<>>
Doc == file.parsed[1]

IdsOf(s) == {s[i].id : i \in 1 .. Len(s)}
Increasing(s) == \A i \in 1 .. Len(s) - 1 : s[i] < s[i + 1]
Distinct(s) == \A i, j \in 1 .. Len(s) : i # j => s[i] # s[j]
DistinctIds(s) == \A i, j \in 1 .. Len(s) : i # j => s[i].id # s[j].id

\* C1: with requests served one at a time from an absent data file, the ids
\* that the Creates of one collection return, in the order of their return,
\* are strictly increasing; so they are pairwise distinct and no id is
\* returned twice, also after the record that held it was deleted.
C1_CreateIdsIncrease == \A k \in Kinds : Increasing(issued[k])

\* a Create returned a new id after the record of an earlier Create was deleted
C1_Witness ==
    \E k \in Kinds :
        /\ Len(issued[k]) = 2
        /\ issued[k][1] \in deleted[k]
        /\ last.h = "create"

\* C2: in every interleaving of requests, the ids returned by the Creates of
\* one collection are pairwise distinct and the persisted collection holds no
\* two records with the same id.
C2_ConcurrentCreatesDistinct ==
    /\ \A k \in Kinds : Distinct(issued[k])
    /\ HasDoc => \A k \in Kinds : DistinctIds(Coll(Doc, k))

\* C3: in every persisted document next_id is greater than the id of every
\* book, and next_user_id, when the document has users, is greater than the id
\* of every user.
C3_CountersAboveIds ==
    HasDoc =>
        /\ \A i \in IdsOf(Doc.books) : Doc.next_id > i
        /\ Doc.has_users => \A i \in IdsOf(Doc.users) : Doc.next_user_id > i

\* a persisted document with a book and a user
C3_Witness ==
    /\ HasDoc
    /\ Doc.books # <<>>
    /\ Doc.has_users
    /\ Doc.users # <<>>

\* C4: in every persisted document no two books share an id and no two users
\* share an id.
C4_UniqueIds ==
    HasDoc => \A k \in Kinds : DistinctIds(Coll(Doc, k))

\* a persisted collection of two records, just after an Update of one of them
C4_Witness ==
    /\ HasDoc
    /\ last.h = "update"
    /\ last.status = 200
    /\ Len(Coll(Doc, last.kind)) = 2

\* C5: every response carries the header X-Process-Time, whatever the path
\* and the outcome, the 401 of admin_guard included.
C5_EveryResponseTimed ==
    last.status # 0 => "X-Process-Time" \in last.headers

\* the first seven characters of a path are "/admin/"
UnderAdmin(path) ==
    /\ Len(path) >= 7
    /\ <<path[1], path[2], path[3], path[4], path[5], path[6], path[7]>>
          = <<"/", "a", "d", "m", "i", "n", "/">>

\* C6: a request whose path begins with "/admin/" reaches its route handler
\* if and only if its X-API-Key equals the secret, and ends with a 401 and no
\* handler otherwise; a request with any other path is delegated to its route
\* whatever its X-API-Key is.
C6_AdminGate ==
    seen # NoSeen =>
        IF UnderAdmin(seen.target.path) /\ seen.key # "sekretnyklucz"
        THEN /\ seen.to = "401"
             /\ last.status = 401
             /\ last.h = "none"
        ELSE /\ seen.to = Route(seen.target).h
             /\ last.status # 401
             /\ seen.to \in {"health", "admin_secret"} => last.h = seen.to
             /\ seen.to \in {"list", "get", "create", "update", "delete"} =>
                   \E t \in Threads : rq[t] = seen.target /\ pc[t] \in {"exists", "lock"}

\* /admin/secret answered by its handler for the right key
C6_Witness ==
    /\ seen.target.path = PathAdminSecret
    /\ seen.key = API_KEY
    /\ last.h = "admin_secret"
    /\ last.status = 200

\* rec is {"id": id} with the fields of x and nothing else
IsRecordOf(rec, id, x) ==
    /\ DOMAIN rec = DOMAIN x \cup {"id"}
    /\ rec.id = id
    /\ \A f \in DOMAIN x : rec[f] = x[f]

\* C7: with requests served one at a time, a Get of an id that a Create
\* returned for the body x, and that was neither updated nor deleted since,
\* answers 200 with the record of that id whose other fields are those of x.
C7_GetAfterCreate ==
    last.h = "get" =>
        \A c \in fresh[last.kind] :
            c.id = last.id => last.status = 200 /\ IsRecordOf(last.body, c.id, c.input)

\* a Get of the second record created, answered with it
C7_Witness ==
    /\ last.h = "get"
    /\ last.status = 200
    /\ last.id = 2
    /\ \E c \in fresh[last.kind] : c.id = last.id

\* C8: with requests served one at a time, once a Delete of an id succeeded,
\* every later Get, Update and Delete of that id on the same collection
\* answers 404.
C8_DeletedStaysGone ==
    [][ (/\ last'.h \in {"get", "update", "delete"}
         /\ last'.id \in deleted[last'.kind])
        => last'.status = 404 ]_vars

\* a Get of a deleted id answered 404 while another record is in the collection
C8_Witness ==
    /\ last.h = "get"
    /\ last.id \in deleted[last.kind]
    /\ last.status = 404
    /\ HasDoc
    /\ Coll(Doc, last.kind) # <<>>

\* new is old with the record at p, of this id, replaced by that of id and x
ReplacedAt(old, new, p, id, x) ==
    /\ Len(new) = Len(old)
    /\ old[p].id = id
    /\ IsRecordOf(new[p], id, x)
    /\ \A q \in 1 .. Len(old) : q # p => new[q] = old[q]

\* C9: with requests served one at a time, an Update of an id that is in the
\* collection saves the loaded document with the record of that id replaced,
\* at its position, by exactly the id and the fields of the body; every other
\* record, the other collection and the counters are as loaded, and the
\* document is persisted and the new record returned.
C9_UpdateReplaces ==
    [][ \A t \in Threads :
          /\ (pc[t] = "read" /\ pc'[t] = "save_open" /\ ret'[t].h = "update") =>
                LET k == ret'[t].kind
                    o == IF k = "books" THEN "users" ELSE "books"
                IN  /\ \E p \in 1 .. Len(Coll(Doc, k)) :
                          ReplacedAt(Coll(Doc, k), Coll(db'[t], k), p,
                                     ret'[t].id, ret'[t].input)
                    /\ Coll(db'[t], o) = Coll(Doc, o)
                    /\ db'[t].next_id = Doc.next_id
                    /\ db'[t].next_user_id = Doc.next_user_id
                    /\ db'[t].has_users = Doc.has_users
                    /\ ret'[t].status = 200
                    /\ IsRecordOf(ret'[t].body, ret'[t].id, ret'[t].input)
          /\ (pc[t] = "save_dump" /\ ret[t].h = "update") =>
                /\ file'.parsed = <<db[t]>>
                /\ last' = ret[t] ]_vars

\* an Update of the first of two records that changed its fields
C9_Witness ==
    /\ last.h = "update"
    /\ last.status = 200
    /\ HasDoc
    /\ Len(Coll(Doc, last.kind)) = 2
    /\ Coll(Doc, last.kind)[1].id = last.id
    /\ \E c \in fresh[last.kind] : c.id # last.id

\* no record of collection k of document d has this id
AbsentFrom(d, k, id) == \A i \in 1 .. Len(Coll(d, k)) : Coll(d, k)[i].id # id

\* C10: an Update or Delete of an id that is not in the collection answers
\* 404 and writes nothing: the handler goes from its scan to its 404 without
\* a step of save_db, leaving the file and the lock holder's state as found.
C10_NotFoundWritesNothing ==
    [][ \A t \in Threads :
          (/\ pc[t] = "read"
           /\ pc'[t] # "read"
           /\ HasDoc
           /\ Route(rq[t]).h \in {"update", "delete"}) =>
             IF pc'[t] = "save_open"
             THEN ~AbsentFrom(Doc, ret'[t].kind, ret'[t].id)
             ELSE /\ AbsentFrom(Doc, last'.kind, last'.id)
                  /\ last'.status = 404
                  /\ last'.h = Route(rq[t]).h
                  /\ pc'[t] = "idle"
                  /\ file' = file
                  /\ lock' = 0 ]_vars

\* a Delete of an absent id answered 404 on a collection that holds a record
C10_Witness ==
    /\ last.h = "delete"
    /\ last.status = 404
    /\ HasDoc
    /\ Coll(Doc, last.kind) # <<>>

\* the ids of the records of s, in their order
IdSeq(s) == [i \in 1 .. Len(s) |-> s[i].id]

C12_SaveAtomicForLoad ==
    [][ \A t \in Threads :
          (/\ pc[t] = "read"
           /\ Handler(t).h \in {"list", "get"}
           /\ pc'[t] = "idle"
           /\ \E u \in Threads \ {t} : pc[u] = "save_dump")
          => /\ HasDoc
             /\ last'.status # 500 ]_vars

\* C13: a Create, Update or Delete is all or nothing for data.json, also when
\* save_db fails: when the handler ends with its success response the file
\* holds the collections with the mutation applied, and when it ends with an
\* error the file holds the collections as they were before the request.
C13_WriteAllOrNothing ==
    [][ \A t \in Threads :
          (/\ pc[t] \in {"read", "save_dump"}
           /\ pc'[t] = "idle"
           /\ Handler(t).h \in {"create", "update", "delete"})
          => /\ file'.parsed # <<>>
             /\ \A k \in Kinds :
                   Coll(file'.parsed[1], k)
                     = IF last'.status \in {200, 201, 204} THEN live'[k] ELSE live[k] ]_vars

\* thread t is inside the "with LOCK:" block of a write handler, between the
\* start of its load_db and the end of its save_db
InWrite(t) ==
    /\ pc[t] \in {"exists", "open_w", "dump", "read", "save_open", "save_dump"}
    /\ Handler(t).h \in {"create", "update", "delete"}

\* C14: a thread between the load and the save of a Create, Update or Delete,
\* of books or of users, holds LOCK, so at most one thread is there at any
\* time and the loads and saves of two writes never interleave.
C14_WritesSerialized ==
    /\ \A t \in Threads : InWrite(t) => lock = t
    /\ Cardinality({t \in Threads : InWrite(t)}) <= 1

\* a book write inside save_db while a user write waits for LOCK
C14_Witness ==
    \E t, u \in Threads :
        /\ pc[t] = "save_dump"
        /\ Kind(t) = "books"
        /\ lock = t
        /\ pc[u] = "lock"
        /\ Kind(u) = "users"

\* C15: under a fair scheduler every request that a thread serves ends, and
\* the step that ends it sends its one response; a request that admin_guard
\* rejects or that needs no file is answered in the step of its arrival.  A
\* thread holds LOCK only inside a write handler, never after its response,
\* the 404 of Update and Delete included; a write that waits for LOCK stops
\* waiting only by getting it, and as it ends, it does get it.
C15_RequestsComplete ==
    /\ \A t \in Threads : (pc[t] # "idle") ~> (pc[t] = "idle")
    /\ [](\A t \in Threads : lock = t => InWrite(t))
    /\ [][ \A t \in Threads :
              (pc[t] = "lock" /\ pc'[t] # "lock") => (lock' = t /\ pc'[t] # "idle") ]_vars
    /\ [][ \A t \in Threads :
              (pc[t] # "idle" /\ pc'[t] = "idle") => last'.status # 0 ]_vars
    /\ [][ seen' # NoSeen /\ pc' = pc => last'.status # 0 ]_vars

\* an Update answered 404 while a write of the other thread waits for LOCK,
\* which is free again
C15_Witness ==
    /\ last.h = "update"
    /\ last.status = 404
    /\ lock = 0
    /\ \E u \in Threads : pc[u] = "lock"

\* C16: in every interleaving, a step of a List or Get leaves data.json as it
\* is when the document in it holds a record (so it resets no counter), and
\* whenever data.json holds a document, every id that a Create returned and
\* that no Delete removed is the id of a record of its collection.
C16_ReadsKeepRecords ==
    [][ /\ \A t \in Threads :
              (/\ pc[t] # "idle"
               /\ pc'[t] # pc[t]
               /\ Handler(t).h \in {"list", "get"}
               /\ HasDoc
               /\ \E k \in Kinds : Coll(Doc, k) # <<>>)
              => file' = file
        /\ file'.parsed # <<>> =>
              \A k \in Kinds : \A i \in 1 .. Len(issued'[k]) :
                  issued'[k][i] \notin deleted'[k]
                     => ~AbsentFrom(file'.parsed[1], k, issued'[k][i]) ]_vars

\* C17: in every interleaving, the document that a Create, Update or Delete
\* of a book saves has the users, next_user_id and the presence of these keys
\* as the handler loaded them, the document that a write of a user saves has
\* the books and next_id as loaded, and save_db persists exactly that
\* document.
C17_OtherKindUntouched ==
    [][ \A t \in Threads :
          /\ (pc[t] = "read" /\ pc'[t] = "save_open") =>
                IF Kind(t) = "books"
                THEN /\ db'[t].users = Doc.users
                     /\ db'[t].next_user_id = Doc.next_user_id
                     /\ db'[t].has_users = Doc.has_users
                ELSE /\ db'[t].books = Doc.books
                     /\ db'[t].next_id = Doc.next_id
          /\ (pc[t] = "save_dump" /\ pc'[t] = "idle" /\ last'.status # 500) =>
                file'.parsed = <<db[t]>> ]_vars

\* a book deleted from a document that holds a user
C17_Witness ==
    /\ last.h = "delete"
    /\ last.status = 204
    /\ last.kind = "books"
    /\ HasDoc
    /\ Doc.users # <<>>

\* C18: the document an Update or a Delete saves has next_id, next_user_id
\* and the presence of the users keys as loaded, and their 404 saves nothing;
\* the document a Create saves has the counter of its own collection one
\* above the loaded one and the other counter as loaded, and the id it
\* returns is the loaded counter; a Create on the document that _ensure_db
\* made of an absent file, and a Create of a user on a document without the
\* users keys, return id 1 and leave the counter at 2.
C18_OnlyCreateMovesCounter ==
    [][ \A t \in Threads :
          /\ (pc[t] = "read" /\ pc'[t] = "save_open") =>
                LET d == db'[t]
                    r == ret'[t]
                IN  CASE r.h # "create" ->
                           /\ d.next_id = Doc.next_id
                           /\ d.next_user_id = Doc.next_user_id
                           /\ d.has_users = Doc.has_users
                      [] r.h = "create" /\ r.kind = "books" ->
                           /\ r.id = Doc.next_id
                           /\ d.next_id = Doc.next_id + 1
                           /\ d.next_user_id = Doc.next_user_id
                           /\ d.has_users = Doc.has_users
                           /\ Doc = DefaultDoc => r.id = 1
                      [] OTHER ->
                           /\ r.id = IF Doc.has_users THEN Doc.next_user_id ELSE 1
                           /\ d.next_user_id = r.id + 1
                           /\ d.has_users
                           /\ d.next_id = Doc.next_id
          /\ (pc[t] = "read" /\ pc'[t] = "idle"
                 /\ Handler(t).h \in {"update", "delete"}) => file' = file
          /\ (pc[t] = "save_dump" /\ pc'[t] = "idle" /\ last'.status # 500) =>
                /\ file'.parsed # <<>>
                /\ file'.parsed[1].next_id = db[t].next_id
                /\ file'.parsed[1].next_user_id = db[t].next_user_id
                /\ file'.parsed[1].has_users = db[t].has_users ]_vars

\* a Delete of one of two books: next_id is still 3
C18_Witness ==
    /\ last.h = "delete"
    /\ last.status = 204
    /\ last.kind = "books"
    /\ HasDoc
    /\ Len(Doc.books) = 1
    /\ Doc.next_id = 3

====
